---------------------------- MODULE Spec2Model ----------------------------
(***************************************************************************)
(* Model of plot_per_peptide_comparison (phip_seq_helper_functions.py).    *)
(*                                                                         *)
(* One call of the function is a run of the state machine: the arguments   *)
(* are chosen in Init, every block of the function body is one action, and *)
(* the calls made on matplotlib, scipy and pandas are recorded in the      *)
(* state (fig, ax1, ax2, ttest_calls, reads).  Numbers are exact rationals *)
(* <<num, den>> with den > 0; <<0, 0>> stands for a float NaN.  The        *)
(* rounding of float64 arithmetic is not modelled, the sample values are   *)
(* small integers.  Of the plotting calls the model keeps the artists and  *)
(* ticks; styling (colours of lines, fonts, grid, spines, axis titles) and *)
(* the random jitter of the scatter x positions are left out.              *)
(***************************************************************************)
EXTENDS Integers, Sequences, FiniteSets

VARIABLES
    pc,                \* position in the function body
    df,                \* the caller's DataFrame
    peptide,           \* the row key passed
    diseased_columns,  \* the caller's list of diseased sample columns
    healthy_columns,   \* the caller's list of healthy sample columns
    label_arg,         \* clean_label as passed by the caller
    clean_label,       \* the local clean_label (rebound on lines 25, 27)
    reads,             \* the df.loc[...] look-ups made so far
    fig,               \* TRUE once plt.subplots has been called
    ax1,               \* the artists of the left panel
    ax2,               \* the artists of the right panel
    group_data,        \* dict label -> y_vals
    i,                 \* index of the left loop (enumerate)
    j,                 \* index of the right loop
    box_data,
    labels,
    bcolors,
    ttest_calls,       \* the calls of stats.ttest_ind
    suptitle,          \* the argument of plt.suptitle, once called
    shown,             \* TRUE once plt.show has been called
    exc                \* the exception that ended the call, "" if none

vars == <<pc, df, peptide, diseased_columns, healthy_columns, label_arg,
          clean_label, reads, fig, ax1, ax2, group_data, i, j, box_data,
          labels, bcolors, ttest_calls, suptitle, shown, exc>>

-----------------------------------------------------------------------------
(* Bounds of the model *)

\* longest list of column names passed for one group
MaxCols == 2

\* longest peptide name in the table
MaxPepLen == 62

-----------------------------------------------------------------------------
(* Optional values: None is <<>>, a present value v is <<v>> *)

None == <<>>

Some(v) == <<v>>

-----------------------------------------------------------------------------
(* Exact rational arithmetic standing for float (dtype=float) *)

NaN == <<0, 0>>

IsNaN(a) == a[2] = 0

Rat(n) == <<n, 1>>

\* a < b as Python compares floats: False as soon as one side is NaN
Lt(a, b) == /\ ~IsNaN(a)
            /\ ~IsNaN(b)
            /\ a[1] * b[2] < b[1] * a[2]

Le(a, b) == /\ ~IsNaN(a)
            /\ ~IsNaN(b)
            /\ a[1] * b[2] <= b[1] * a[2]

REq(a, b) == /\ ~IsNaN(a)
             /\ ~IsNaN(b)
             /\ a[1] * b[2] = b[1] * a[2]

RECURSIVE SumSeq(_)
SumSeq(s) == IF s = <<>> THEN 0 ELSE Head(s) + SumSeq(Tail(s))

\* the square root of the rational q, kept exact as its radicand
Sqrt(q) == [radicand |-> q]

\* s > 0 for a square root s
Positive(s) == s.radicand[1] > 0

\* np.mean(y_vals)
np_mean(y) == <<SumSeq(y), Len(y)>>

\* np.std(y_vals, ddof): the root of the mean squared deviation from the
\* mean, the sum of squares divided by len - ddof.  With mean = S/n the
\* deviation of x is (n*x - S)/n.
np_std(y, ddof) ==
    LET n  == Len(y)
        S  == SumSeq(y)
        sq == [k \in 1..n |-> (n * y[k] - S) * (n * y[k] - S)]
    IN  Sqrt(<<SumSeq(sq), n * n * (n - ddof)>>)

-----------------------------------------------------------------------------
(* The arguments a call is made with *)

\* the length above which the peptide name is truncated for the title
TitleLimit == 60

AminoAcids == <<"A", "C", "D", "E", "F", "G", "H", "I", "K", "L",
                "M", "N", "P", "Q", "R", "S", "T", "V", "W", "Y">>

\* a peptide name of n characters
Pep(n) == [k \in 1..n |-> AminoAcids[(k % 20) + 1]]

PepLens == {1, TitleLimit, TitleLimit + 1, MaxPepLen}

\* a row key that is in no table
MissingPeptide == <<"X">>

SampleColumns == {"s1", "s2"}

\* the column names a caller may pass; "zz" is a column of no table
ColumnNames == SampleColumns \cup {"zz"}

RowLabel == <<"H", "C", "R", "T">>

\* a table: row keys, column names, the sample values and, when the table
\* has a 'clean_label' column, the label of each row
DataFrame(hasLabel) ==
    [index   |-> {Pep(n) : n \in PepLens},
     columns |-> SampleColumns \cup (IF hasLabel THEN {"clean_label"} ELSE {}),
     at      |-> [r \in {Pep(n) : n \in PepLens}, c \in SampleColumns |->
                     IF c = "s1" THEN Len(r) % 4 ELSE 2],
     label   |-> [r \in {Pep(n) : n \in PepLens} |-> RowLabel \o <<r[1]>>]]

DataFrames == {DataFrame(b) : b \in BOOLEAN}

ColumnLists == UNION {[1..n -> ColumnNames] : n \in 0..MaxCols}

\* clean_label as passed: absent, the empty string, or a label
LabelArgs == {None, Some(<<>>), Some(<<"I", "g", "G">>)}

-----------------------------------------------------------------------------
(* pandas: df.loc *)

\* df.loc[row, cols] raises KeyError when the row key or a column name is
\* not in the table
KeyError(d, row, cols) ==
    \/ row \notin d.index
    \/ \E k \in 1..Len(cols) : cols[k] \notin d.columns

\* np.array(df.loc[row, cols], dtype=float).flatten()
loc_values(d, row, cols) == [k \in 1..Len(cols) |-> d.at[row, cols[k]]]

-----------------------------------------------------------------------------
(* Lines 22-31: the title label and the groups *)

\* variant of truncated: the limit test reads >= instead of >
truncated_from_limit(p) ==
    IF Len(p) >= TitleLimit
    THEN SubSeq(p, 1, TitleLimit) \o <<".", ".", ".">>
    ELSE p

\* peptide[:60] + '...' if len(peptide) > 60 else peptide
truncated(p) ==
    IF Len(p) > TitleLimit
    THEN SubSeq(p, 1, TitleLimit) \o <<".", ".", ".">>
    ELSE p

\* variant of label_source: the table's column is consulted first
label_source_df_first(label, d) ==
    IF "clean_label" \in d.columns
    THEN "df"
    ELSE IF label = None THEN "peptide" ELSE "arg"

\* where the label comes from: "arg", "df" or "peptide"
label_source(label, d) ==
    IF label = None
    THEN IF "clean_label" \in d.columns THEN "df" ELSE "peptide"
    ELSE "arg"

\* variant of all_groups: both groups take the healthy columns
all_groups_same_columns(diseased, healthy) ==
    << [label |-> "ROHHAD",  columns |-> healthy, color |-> "#E74C3C"],
       [label |-> "Healthy", columns |-> healthy, color |-> "#3498DB"] >>

all_groups(diseased, healthy) ==
    << [label |-> "ROHHAD",  columns |-> diseased, color |-> "#E74C3C"],
       [label |-> "Healthy", columns |-> healthy,  color |-> "#3498DB"] >>

-----------------------------------------------------------------------------
(* Lines 40-55: the statistics and guards of the left panel *)

\* variant of std_val: the population standard deviation (ddof=0)
std_val_population(y) == IF Len(y) > 1 THEN np_std(y, 0) ELSE Sqrt(Rat(0))

\* np.std(y_vals, ddof=1) if len(y_vals) > 1 else 0
std_val(y) == IF Len(y) > 1 THEN np_std(y, 1) ELSE Sqrt(Rat(0))

\* variant of draws_errorbar: the error bar is drawn whatever std_val is
draws_errorbar_always(std) == TRUE

\* if std_val > 0: ax1.errorbar(...)
draws_errorbar(std) == Positive(std)

\* the artists one iteration of the left loop adds for group number k
\* (0-based) with values y; nothing when the group is empty
left_artists(ax, k, g, y) ==
    IF Len(y) > 0
    THEN [ax EXCEPT
            !.scatter  = Append(@, [pos |-> k, y |-> y, color |-> g.color,
                                    legend |-> [name |-> g.label, n |-> Len(y)]]),
            !.hlines   = Append(@, [pos |-> k, y |-> np_mean(y)]),
            !.errorbar = IF draws_errorbar(std_val(y))
                         THEN Append(@, [pos |-> k, y |-> np_mean(y),
                                         yerr |-> std_val(y)])
                         ELSE @,
            !.text     = Append(@, [pos |-> k, mean |-> np_mean(y),
                                    std |-> std_val(y)])]
    ELSE ax

-----------------------------------------------------------------------------
(* Lines 68-92: the right panel *)

\* variant of box_y_vals: the first column of the group is skipped
box_y_vals_skip_first(d, row, cols) ==
    IF cols = <<>> THEN <<>> ELSE loc_values(d, row, Tail(cols))

\* the values the right loop reads for a group (line 75)
box_y_vals(d, row, cols) == loc_values(d, row, cols)

\* range(len(s)) as a list
range(s) == [k \in 1..Len(s) |-> k - 1]

\* variant of box_xticks: the two fixed ticks of the left panel
box_xticks_fixed(lbls) == <<0, 1>>

\* ax2.set_xticks(range(len(labels)))
box_xticks(lbls) == range(lbls)

-----------------------------------------------------------------------------
(* Lines 101-112: the p-value *)

\* len(group_data.get('ROHHAD', [])) >= 2 and len(group_data.get('Healthy', [])) >= 2
get(gd, key) == IF key \in DOMAIN gd THEN gd[key] ELSE <<>>

\* variant of enough_data: one group with two observations is enough
enough_data_either(gd) ==
    Len(get(gd, "ROHHAD")) >= 2 \/ Len(get(gd, "Healthy")) >= 2

enough_data(gd) == Len(get(gd, "ROHHAD")) >= 2 /\ Len(get(gd, "Healthy")) >= 2

\* representative p-values around the thresholds 0.001, 0.01 and 0.05
PValues == {<<0, 1>>, <<9, 10000>>, <<1, 1000>>, <<5, 1000>>,
            <<1, 100>>, <<3, 100>>, <<5, 100>>, <<1, 1>>}

\* stats.ttest_ind(a, b, equal_var=False): the p-values it may return.  When
\* both samples have zero variance and equal means the statistic is 0/0 and
\* the p-value is NaN; otherwise it is some number in [0, 1].
ttest_ind(a, b) ==
    IF /\ ~Positive(np_std(a, 1))
       /\ ~Positive(np_std(b, 1))
       /\ REq(np_mean(a), np_mean(b))
    THEN {NaN}
    ELSE PValues

\* f"p = {pval:.2e}" if pval < 0.001 else f"p = {pval:.4f}"
sig_format(pval) == IF Lt(pval, <<1, 1000>>) THEN ".2e" ELSE ".4f"

\* variant of sig_marker: the tests run from the loosest threshold
sig_marker_loosest_first(pval) ==
    IF Lt(pval, <<5, 100>>) THEN " *"
    ELSE IF Lt(pval, <<1, 100>>) THEN " **"
    ELSE IF Lt(pval, <<1, 1000>>) THEN " ***"
    ELSE ""

\* the if / elif / elif chain of lines 105-110
sig_marker(pval) ==
    IF Lt(pval, <<1, 1000>>) THEN " ***"
    ELSE IF Lt(pval, <<1, 100>>) THEN " **"
    ELSE IF Lt(pval, <<5, 100>>) THEN " *"
    ELSE ""

sig_text(pval) ==
    [format |-> sig_format(pval), pval |-> pval, marker |-> sig_marker(pval)]

-----------------------------------------------------------------------------
(* The call *)

NoArtists1 == [scatter |-> <<>>, hlines |-> <<>>, errorbar |-> <<>>,
               text |-> <<>>, xticks |-> None, xticklabels |-> None,
               legend |-> None]

NoArtists2 == [boxplot |-> <<>>, facecolors |-> <<>>, xticks |-> None,
               xticklabels |-> None, text |-> <<>>]

\* d[key] = value
put(d, key, value) ==
    [k \in DOMAIN d \cup {key} |-> IF k = key THEN value ELSE d[k]]

\* the call is entered with its arguments bound
Init ==
    /\ pc = "label"
    /\ df \in DataFrames
    /\ peptide \in {Pep(n) : n \in PepLens} \cup {MissingPeptide}
    /\ diseased_columns \in ColumnLists
    /\ healthy_columns \in ColumnLists
    /\ label_arg \in LabelArgs
    /\ clean_label = label_arg
    /\ reads = <<>>
    /\ fig = FALSE
    /\ ax1 = NoArtists1
    /\ ax2 = NoArtists2
    /\ group_data = <<>>
    /\ i = 0
    /\ j = 0
    /\ box_data = <<>>
    /\ labels = <<>>
    /\ bcolors = <<>>
    /\ ttest_calls = <<>>
    /\ suptitle = None
    /\ shown = FALSE
    /\ exc = ""

\* the caller's objects, which no statement of the function assigns to
args == <<df, peptide, diseased_columns, healthy_columns, label_arg>>

\* lines 22-27
ResolveLabel ==
    /\ pc = "label"
    /\ IF label_source(clean_label, df) = "df"
       THEN /\ reads' = Append(reads, [line |-> 25, row |-> peptide,
                                       cols |-> <<"clean_label">>])
            /\ IF KeyError(df, peptide, <<"clean_label">>)
               THEN /\ exc' = "KeyError"
                    /\ pc' = "raised"
                    /\ UNCHANGED clean_label
               ELSE /\ clean_label' = Some(df.label[peptide])
                    /\ pc' = "subplots"
                    /\ UNCHANGED exc
       ELSE /\ clean_label' = IF label_source(clean_label, df) = "peptide"
                              THEN Some(truncated(peptide))
                              ELSE clean_label
            /\ pc' = "subplots"
            /\ UNCHANGED <<reads, exc>>
    /\ UNCHANGED <<args, fig, ax1, ax2, group_data, i, j, box_data, labels,
                   bcolors, ttest_calls, suptitle, shown>>

\* lines 29-38: plt.subplots, group_data = {}
Subplots ==
    /\ pc = "subplots"
    /\ fig' = TRUE
    /\ group_data' = <<>>
    /\ i' = 0
    /\ pc' = "left"
    /\ UNCHANGED <<args, clean_label, reads, ax1, ax2, j, box_data, labels,
                   bcolors, ttest_calls, suptitle, shown, exc>>

\* lines 40-55: one iteration of the left loop
LeftGroup ==
    /\ pc = "left"
    /\ i < Len(all_groups(diseased_columns, healthy_columns))
    /\ LET g == all_groups(diseased_columns, healthy_columns)[i + 1]
           y == loc_values(df, peptide, g.columns)
       IN  /\ reads' = Append(reads, [line |-> 41, row |-> peptide,
                                      cols |-> g.columns])
           /\ IF KeyError(df, peptide, g.columns)
              THEN /\ exc' = "KeyError"
                   /\ pc' = "raised"
                   /\ UNCHANGED <<group_data, ax1, i>>
              ELSE /\ group_data' = put(group_data, g.label, y)
                   /\ ax1' = left_artists(ax1, i, g, y)
                   /\ i' = i + 1
                   /\ UNCHANGED <<pc, exc>>
    /\ UNCHANGED <<args, clean_label, fig, ax2, j, box_data, labels, bcolors,
                   ttest_calls, suptitle, shown>>

\* lines 57-72: the axes of the left panel, then the empty lists of the right
LeftAxes ==
    /\ pc = "left"
    /\ i = Len(all_groups(diseased_columns, healthy_columns))
    /\ ax1' = [ax1 EXCEPT
                 !.xticks = Some(<<0, 1>>),
                 !.xticklabels = Some(<<"ROHHAD", "Healthy">>),
                 !.legend = Some([k \in 1..Len(ax1.scatter) |->
                                     ax1.scatter[k].legend])]
    /\ box_data' = <<>>
    /\ labels' = <<>>
    /\ bcolors' = <<>>
    /\ j' = 0
    /\ pc' = "right"
    /\ UNCHANGED <<args, clean_label, reads, fig, ax2, group_data, i,
                   ttest_calls, suptitle, shown, exc>>

\* lines 74-79: one iteration of the right loop
RightGroup ==
    /\ pc = "right"
    /\ j < Len(all_groups(diseased_columns, healthy_columns))
    /\ LET g == all_groups(diseased_columns, healthy_columns)[j + 1]
           y == box_y_vals(df, peptide, g.columns)
       IN  /\ reads' = Append(reads, [line |-> 75, row |-> peptide,
                                      cols |-> g.columns])
           /\ IF KeyError(df, peptide, g.columns)
              THEN /\ exc' = "KeyError"
                   /\ pc' = "raised"
                   /\ UNCHANGED <<box_data, labels, bcolors, j>>
              ELSE /\ IF Len(y) > 0
                      THEN /\ box_data' = Append(box_data, y)
                           /\ labels' = Append(labels, g.label)
                           /\ bcolors' = Append(bcolors, g.color)
                      ELSE UNCHANGED <<box_data, labels, bcolors>>
                   /\ j' = j + 1
                   /\ UNCHANGED <<pc, exc>>
    /\ UNCHANGED <<args, clean_label, fig, ax1, ax2, group_data, i,
                   ttest_calls, suptitle, shown>>

\* zip(bp['boxes'], bcolors): one face colour per box, as far as both reach
zip_colors(boxes, colors) ==
    [k \in 1..(IF Len(boxes) < Len(colors) THEN Len(boxes) ELSE Len(colors))
        |-> colors[k]]

\* lines 81-99: the boxplot and the axes of the right panel
RightAxes ==
    /\ pc = "right"
    /\ j = Len(all_groups(diseased_columns, healthy_columns))
    /\ ax2' = [ax2 EXCEPT
                 !.boxplot = IF box_data # <<>>
                             THEN Append(@, [data |-> box_data,
                                             positions |-> range(box_data)])
                             ELSE @,
                 !.facecolors = IF box_data # <<>>
                                THEN zip_colors(box_data, bcolors)
                                ELSE @,
                 !.xticks = Some(box_xticks(labels)),
                 !.xticklabels = Some(labels)]
    /\ pc' = "pvalue"
    /\ UNCHANGED <<args, clean_label, reads, fig, ax1, group_data, i, j,
                   box_data, labels, bcolors, ttest_calls, suptitle, shown,
                   exc>>

\* lines 101-112: the p-value annotation
PValue ==
    /\ pc = "pvalue"
    /\ IF enough_data(group_data)
       THEN \E pval \in ttest_ind(group_data["ROHHAD"], group_data["Healthy"]) :
               /\ ttest_calls' = Append(ttest_calls,
                                        [a |-> group_data["ROHHAD"],
                                         b |-> group_data["Healthy"]])
               /\ ax2' = [ax2 EXCEPT !.text = Append(@, sig_text(pval))]
       ELSE UNCHANGED <<ttest_calls, ax2>>
    /\ pc' = "show"
    /\ UNCHANGED <<args, clean_label, reads, fig, ax1, group_data, i, j,
                   box_data, labels, bcolors, suptitle, shown, exc>>

\* lines 114-116: the title, then plt.show()
Show ==
    /\ pc = "show"
    /\ suptitle' = clean_label
    /\ shown' = TRUE
    /\ pc' = "done"
    /\ UNCHANGED <<args, clean_label, reads, fig, ax1, ax2, group_data, i, j,
                   box_data, labels, bcolors, ttest_calls, exc>>

Next ==
    \/ ResolveLabel
    \/ Subplots
    \/ LeftGroup
    \/ LeftAxes
    \/ RightGroup
    \/ RightAxes
    \/ PValue
    \/ Show

Spec == Init /\ [][Next]_vars

-----------------------------------------------------------------------------
(* Vocabulary of the properties, stated on the arguments of the call *)

GroupColumns(k) == IF k = 0 THEN diseased_columns ELSE healthy_columns

GroupName(k) == IF k = 0 THEN "ROHHAD" ELSE "Healthy"

GroupColor(k) == IF k = 0 THEN "#E74C3C" ELSE "#3498DB"

\* the row values of group k, in the order of its column list
GroupValues(k) ==
    [m \in 1..Len(GroupColumns(k)) |-> df.at[peptide, GroupColumns(k)[m]]]

GroupSize(k) == Len(GroupColumns(k))

\* the indices of the artists of a list that sit at position k
AtPos(artists, k) == {m \in 1..Len(artists) : artists[m].pos = k}

MissingColumn(cols) == \E m \in 1..Len(cols) : cols[m] \notin df.columns

MissingInput ==
    \/ peptide \notin df.index
    \/ MissingColumn(diseased_columns)
    \/ MissingColumn(healthy_columns)

\* the left loop has run to its end
LeftDone == pc \in {"right", "pvalue", "show", "done"}

\* the right panel has been drawn
RightDone == pc \in {"pvalue", "show", "done"}

\* the p-value block has been passed
PValueDone == pc \in {"show", "done"}

-----------------------------------------------------------------------------
(* C1 *)

\* C1: a call whose row key is not in the table, or one of whose column
\* names is not a column of the table, never reaches plt.show() and can
\* only end in the raised state, with or without clean_label.
C1_MissingInputRaises ==
    MissingInput =>
        /\ ~shown
        /\ pc # "done"
        /\ (~ENABLED Next) => (pc = "raised" /\ exc = "KeyError")

\* a call with a label passed and a present row key has raised on a column
\* name of the healthy group only
C1_Witness ==
    /\ pc = "raised"
    /\ label_arg # None
    /\ peptide \in df.index
    /\ ~MissingColumn(diseased_columns)
    /\ MissingColumn(healthy_columns)

-----------------------------------------------------------------------------
(* C2 *)

\* C2: stats.ttest_ind is called, and the p-value text drawn, exactly when
\* both groups have at least two observations; before the p-value block
\* neither has happened.
C2_PValueIffTwoEach ==
    /\ ~PValueDone => (ttest_calls = <<>> /\ ax2.text = <<>>)
    /\ PValueDone =>
          IF GroupSize(0) >= 2 /\ GroupSize(1) >= 2
          THEN Len(ttest_calls) = 1 /\ Len(ax2.text) = 1
          ELSE ttest_calls = <<>> /\ ax2.text = <<>>

\* a finished call that drew no p-value because one group has a single
\* observation while the other has two
C2_Witness ==
    /\ pc = "done"
    /\ GroupSize(0) = 1
    /\ GroupSize(1) = 2
    /\ ax2.text = <<>>

-----------------------------------------------------------------------------
(* C3 *)

SumOfSquares(y) == SumSeq([m \in 1..Len(y) |-> y[m] * y[m]])

\* q is the sample variance (divisor n-1) of y, by the one-pass formula
\* (n * sum of squares - square of the sum) / (n * (n-1))
IsSampleVariance(q, y) ==
    LET n == Len(y)
    IN  /\ q[2] > 0
        /\ q[1] * n * (n - 1)
             = (n * SumOfSquares(y) - SumSeq(y) * SumSeq(y)) * q[2]

\* C3: for every group the left loop has handled, a non-empty group has one
\* mean line and one text, both carrying the arithmetic mean of the row
\* values; the standard deviation reported is the sample one (divisor n-1),
\* and 0 for a single observation; an empty group has neither.
C3_MeanAndSampleStd ==
    \A k \in 0..(i - 1) :
        LET y == GroupValues(k)
            n == Len(y)
        IN  IF n = 0
            THEN AtPos(ax1.hlines, k) = {} /\ AtPos(ax1.text, k) = {}
            ELSE /\ Cardinality(AtPos(ax1.hlines, k)) = 1
                 /\ Cardinality(AtPos(ax1.text, k)) = 1
                 /\ \A m \in AtPos(ax1.hlines, k) :
                       /\ ax1.hlines[m].y[1] * n = SumSeq(y) * ax1.hlines[m].y[2]
                       /\ ax1.hlines[m].y[2] > 0
                 /\ \A m \in AtPos(ax1.text, k) :
                       /\ ax1.text[m].mean[1] * n = SumSeq(y) * ax1.text[m].mean[2]
                       /\ ax1.text[m].mean[2] > 0
                       /\ IF n = 1
                          THEN ax1.text[m].std.radicand = Rat(0)
                          ELSE IsSampleVariance(ax1.text[m].std.radicand, y)
                 /\ \A m \in AtPos(ax1.errorbar, k) :
                       /\ ax1.errorbar[m].y[1] * n
                            = SumSeq(y) * ax1.errorbar[m].y[2]
                       /\ IsSampleVariance(ax1.errorbar[m].yerr.radicand, y)

\* a finished call with a single observation in one group and two distinct
\* observations in the other
C3_Witness ==
    /\ pc = "done"
    /\ GroupSize(0) = 1
    /\ GroupSize(1) = 2
    /\ Len(ax1.errorbar) = 1
    /\ Len(ax1.text) = 2

-----------------------------------------------------------------------------
(* C4 *)

\* the peptide name, unchanged up to 60 characters, otherwise its first 60
\* characters followed by three dots
TitleFromPeptide ==
    IF Len(peptide) <= 60
    THEN peptide
    ELSE [m \in 1..63 |-> IF m <= 60 THEN peptide[m] ELSE "."]

\* C4 as stated: the title of a finished call is the label passed, and the
\* (truncated) peptide name whenever no label is passed.
C4_TitleFromArgOrPeptide ==
    pc = "done" =>
        suptitle = IF label_arg # None THEN label_arg
                   ELSE Some(TitleFromPeptide)

\* C4 as amended: the title of a finished call is the label passed; when no
\* label is passed and the table has no 'clean_label' column it is the
\* peptide name, truncated to 60 characters plus '...' (63 characters) when
\* longer than 60.
C4_TitleFromArgOrPeptideWithoutColumn ==
    pc = "done" =>
        /\ label_arg # None => suptitle = label_arg
        /\ (label_arg = None /\ "clean_label" \notin df.columns) =>
              /\ suptitle = Some(TitleFromPeptide)
              /\ Len(peptide) > 60 => Len(suptitle[1]) = 63
              /\ Len(peptide) <= 60 => suptitle[1] = peptide

\* a finished call without a label, on a table without the column, whose
\* peptide name is longer than 60 characters
C4_Witness ==
    /\ pc = "done"
    /\ label_arg = None
    /\ "clean_label" \notin df.columns
    /\ Len(peptide) > 60
    /\ Len(suptitle[1]) = 63

-----------------------------------------------------------------------------
(* C5 *)

\* C5 as stated: whenever the call has raised, no figure has been created.
C5_RaisesBeforeFigure == exc # "" => ~fig

-----------------------------------------------------------------------------
(* C6 *)

\* the look-ups of the 'clean_label' column made so far
LabelReads == {m \in 1..Len(reads) : reads[m].cols = <<"clean_label">>}

\* C6: a label passed is the title and the table is never asked for one;
\* without a label, a table with a 'clean_label' column is asked exactly
\* once and gives the title; the peptide name is used only without a label
\* and without the column, and then the table is not asked either.
C6_TitlePrecedence ==
    /\ label_arg # None =>
          /\ LabelReads = {}
          /\ pc = "done" => suptitle = label_arg
    /\ (label_arg = None /\ "clean_label" \in df.columns) =>
          /\ pc # "label" => Cardinality(LabelReads) = 1
          /\ pc = "done" => suptitle = Some(df.label[peptide])
    /\ (label_arg = None /\ "clean_label" \notin df.columns) =>
          /\ LabelReads = {}
          /\ pc = "done" => suptitle = Some(TitleFromPeptide)

\* a finished call that was passed the empty string as label on a table that
\* has a 'clean_label' column
C6_Witness ==
    /\ pc = "done"
    /\ label_arg = Some(<<>>)
    /\ "clean_label" \in df.columns
    /\ suptitle = Some(<<>>)

-----------------------------------------------------------------------------
(* C7 *)

\* the non-empty groups, in the order ROHHAD, Healthy
NonEmptyGroups ==
    (IF GroupSize(0) > 0 THEN <<0>> ELSE <<>>)
        \o (IF GroupSize(1) > 0 THEN <<1>> ELSE <<>>)

\* C7: box_data, labels and bcolors always have the same length; once the
\* right panel is drawn they hold exactly the non-empty groups in the order
\* ROHHAD, Healthy, each with its values, label and colour; the boxes sit at
\* positions 0..k-1 and are coloured in that order, there are k x ticks, and
\* boxplot is not called when both groups are empty.
C7_BoxesAreNonEmptyGroups ==
    /\ Len(box_data) = Len(labels)
    /\ Len(labels) = Len(bcolors)
    /\ RightDone =>
          LET k == Len(NonEmptyGroups)
          IN  /\ Len(box_data) = k
              /\ \A m \in 1..k :
                    /\ box_data[m] = GroupValues(NonEmptyGroups[m])
                    /\ labels[m] = GroupName(NonEmptyGroups[m])
                    /\ bcolors[m] = GroupColor(NonEmptyGroups[m])
              /\ ax2.xticks = Some([m \in 1..k |-> m - 1])
              /\ ax2.xticklabels = Some(labels)
              /\ IF k = 0
                 THEN ax2.boxplot = <<>> /\ ax2.facecolors = <<>>
                 ELSE /\ Len(ax2.boxplot) = 1
                      /\ ax2.boxplot[1].data = box_data
                      /\ ax2.boxplot[1].positions = [m \in 1..k |-> m - 1]
                      /\ ax2.facecolors = bcolors

\* a finished call whose only non-empty group is Healthy: its box is at
\* position 0
C7_Witness ==
    /\ pc = "done"
    /\ GroupSize(0) = 0
    /\ GroupSize(1) > 0
    /\ labels = <<"Healthy">>
    /\ Len(ax2.boxplot) = 1

-----------------------------------------------------------------------------
(* C8 *)

AllEqual(y) == \A a, b \in 1..Len(y) : y[a] = y[b]

-----------------------------------------------------------------------------
(* C9 *)

\* the four cases of the claim, for a p-value p
Below001(p) == Lt(p, <<1, 1000>>)

Below01(p) == Le(<<1, 1000>>, p) /\ Lt(p, <<1, 100>>)

Below05(p) == Le(<<1, 100>>, p) /\ Lt(p, <<5, 100>>)

NotSignificant(p) == Le(<<5, 100>>, p)

\* the number of conditions of a list that hold
RECURSIVE CountTrue(_)
CountTrue(bs) ==
    IF bs = <<>> THEN 0
    ELSE (IF Head(bs) THEN 1 ELSE 0) + CountTrue(Tail(bs))

\* what the claim says of the cases it names
MarkerByCase(t) ==
    /\ Below001(t.pval) => (t.marker = " ***" /\ t.format = ".2e")
    /\ Below01(t.pval) => (t.marker = " **" /\ t.format = ".4f")
    /\ Below05(t.pval) => (t.marker = " *" /\ t.format = ".4f")
    /\ NotSignificant(t.pval) => (t.marker = "" /\ t.format = ".4f")

\* C9 as stated: every annotated p-value falls in exactly one of the four
\* cases p < 0.001, 0.001 <= p < 0.01, 0.01 <= p < 0.05, p >= 0.05, and
\* carries the marker and the notation of its case.
C9_ExactlyOneOfFourCases ==
    \A m \in 1..Len(ax2.text) :
        LET t == ax2.text[m]
        IN  /\ CountTrue(<<Below001(t.pval), Below01(t.pval),
                           Below05(t.pval), NotSignificant(t.pval)>>) = 1
            /\ MarkerByCase(t)

\* C9 as amended: every annotated p-value is NaN or falls in exactly one of
\* the four cases; a number carries the marker and the notation of its case,
\* and NaN carries no marker and the fixed notation.
C9_ExactlyOneOfFourCasesOrNaN ==
    \A m \in 1..Len(ax2.text) :
        LET t == ax2.text[m]
        IN  /\ CountTrue(<<Below001(t.pval), Below01(t.pval),
                           Below05(t.pval), NotSignificant(t.pval),
                           IsNaN(t.pval)>>) = 1
            /\ MarkerByCase(t)
            /\ IsNaN(t.pval) => (t.marker = "" /\ t.format = ".4f")
            /\ t.marker \in {"", " *", " **", " ***"}

\* a finished call that annotated a p-value between 0.001 and 0.01
C9_Witness ==
    /\ pc = "done"
    /\ Len(ax2.text) = 1
    /\ Below01(ax2.text[1].pval)
    /\ ax2.text[1].marker = " **"

-----------------------------------------------------------------------------
(* C10 *)

\* the panels and the test use the row values of the groups
SameValuesEverywhere ==
    /\ \A m \in 1..Len(ax1.scatter) :
          ax1.scatter[m].y = GroupValues(ax1.scatter[m].pos)
    /\ \A m \in 1..Len(box_data) :
          \E k \in {0, 1} : /\ labels[m] = GroupName(k)
                            /\ box_data[m] = GroupValues(k)
                            /\ box_data[m] = group_data[GroupName(k)]
    /\ \A m \in 1..Len(ax2.boxplot) : ax2.boxplot[m].data = box_data
    /\ \A m \in 1..Len(ttest_calls) :
          /\ ttest_calls[m].a = GroupValues(0)
          /\ ttest_calls[m].b = GroupValues(1)
    /\ \A m \in 1..Len(reads) : reads[m].row = peptide

\* C10: no step of a call, finishing or raising, changes the table or the
\* two column lists, and the scatter points, the boxes and the samples
\* handed to the t-test are the values of df.loc[peptide, columns] of their
\* group.
C10_ReadOnlySameValues ==
    /\ [][df' = df /\ diseased_columns' = diseased_columns
             /\ healthy_columns' = healthy_columns /\ peptide' = peptide]_vars
    /\ [](SameValuesEverywhere)

\* a finished call that drew two boxes and ran the t-test
C10_Witness ==
    /\ pc = "done"
    /\ Len(box_data) = 2
    /\ Len(ttest_calls) = 1
    /\ Len(ax1.scatter) = 2

=============================================================================
